---- MODULE Spec2Model ----
(***************************************************************************)
(* Storefront identity and wishlist-merge subsystem of the wishlist app.   *)
(*                                                                         *)
(* The store (Shop, Customer, Wishlist, WishlistItem, Event tables with    *)
(* the indexes of the init migration), the proxy-auth helpers, the         *)
(* SessionManager and the four wishlist-proxy route handlers.  Every       *)
(* awaited storage call of a handler is one atomic step; the code that     *)
(* runs synchronously after an await belongs to the step of that await.    *)
(*                                                                         *)
(* Strings are sequences of chunks; the reserved prefix 'guest_' is the    *)
(* single chunk "guest_".  null, undefined and '' are the empty sequence.  *)
(***************************************************************************)
EXTENDS Integers, Sequences, FiniteSets, TLC

VARIABLES shops, customers, wishlists, items, events, reqs, now, faults

vars == <<shops, customers, wishlists, items, events, reqs, now, faults>>

\* ------------------------------------------------------------------ bounds
MaxReqs == 2      \* requests (handler or session calls) in one behaviour
MaxNow == 1       \* clock ticks in the wishlist specifications
MaxFaults == 1    \* storage calls of migrate that are interrupted
MaxAuthTicks == 2 \* clock jumps in the token specification
AuthReqs == 1     \* requests in one behaviour of the token specification
IdStride == 10    \* row ids of request r are r * IdStride + 1, + 2, ...

\* --------------------------------------------------------------- constants
CustomerTtl == 3600
GuestTtl == 86400

\* ----------------------------------------------------------------- strings
Absent == <<>>
GuestPrefix == "guest_"
Digits == {"1", "2"}

startsWithGuest(s) == Len(s) > 0 /\ s[1] = GuestPrefix

substring6(s) == Tail(s)

RECURSIVE replaceGuest(_)
replaceGuest(s) ==
  IF s = <<>> THEN <<>>
  ELSE IF Head(s) = GuestPrefix THEN Tail(s)
  ELSE <<Head(s)>> \o replaceGuest(Tail(s))

\* BigInt(s): defined on decimal strings only, a SyntaxError otherwise
IsNumeric(s) == Len(s) = 1 /\ s[1] \in Digits

BigInt(s) == IF s[1] = "1" THEN 1 ELSE 2

\* a resolver that keeps the prefix in the guest key
parseCustomerIdKeepPrefix(customerId) ==
  IF customerId = Absent THEN [isGuest |-> TRUE, customerId |-> Absent]
  ELSE IF startsWithGuest(customerId)
  THEN [isGuest |-> TRUE, customerId |-> customerId]
  ELSE [isGuest |-> FALSE, customerId |-> customerId]

parseCustomerId(customerId) ==
  IF customerId = Absent THEN [isGuest |-> TRUE, customerId |-> Absent]
  ELSE IF startsWithGuest(customerId)
  THEN [isGuest |-> TRUE, customerId |-> substring6(customerId)]
  ELSE [isGuest |-> FALSE, customerId |-> customerId]

\* ------------------------------------------------------------------ tokens
NoToken ==
  [kind |-> "none", shop |-> "", customerId |-> Absent, type |-> "",
   iat |-> 0, exp |-> 0, sig |-> "none"]

Malformed ==
  [kind |-> "malformed", shop |-> "", customerId |-> Absent, type |-> "",
   iat |-> 0, exp |-> 0, sig |-> "none"]

generateStorefrontToken(shop, customerId, expiresIn, t) ==
  [kind |-> "jwt", shop |-> shop, customerId |-> customerId,
   type |-> "storefront", iat |-> t, exp |-> t + expiresIn, sig |-> "ok"]

generateGuestToken(shop, guestId, t) ==
  generateStorefrontToken(shop, <<GuestPrefix>> \o guestId, GuestTtl, t)

\* the payload a well-formed token string carries
payloadOf(token) ==
  [shop |-> token.shop, customerId |-> token.customerId, type |-> token.type,
   iat |-> token.iat, exp |-> token.exp]

verifyIgnoringExp(token, t) ==
  IF token.kind = "jwt" /\ token.sig = "ok"
  THEN payloadOf(token) ELSE NoToken

\* jwt.verify: signature, then exp against the clock, and the decoded
\* payload; null on any failure
verifyStorefrontToken(token, t) ==
  IF token.kind = "jwt" /\ token.sig = "ok" /\ t < token.exp
  THEN payloadOf(token) ELSE NoToken

\* the same token with a signature made under another secret
Forged(token) == [token EXCEPT !.sig = "forged"]

\* return {shop, customerId, type, expiresAt}
sessionOf(decoded) ==
  [shop |-> decoded.shop, customerId |-> decoded.customerId,
   type |-> decoded.type, expiresAt |-> decoded.exp]

validateSessionNoShopCheck(token, shop, t) ==
  LET decoded == verifyStorefrontToken(token, t) IN
  IF decoded = NoToken THEN NoToken
  ELSE IF decoded.exp < t THEN NoToken
  ELSE sessionOf(decoded)

validateSession(token, shop, t) ==
  LET decoded == verifyStorefrontToken(token, t) IN
  IF decoded = NoToken \/ decoded.shop # shop THEN NoToken
  ELSE IF decoded.exp < t THEN NoToken
  ELSE sessionOf(decoded)

\* ------------------------------------------------------------------- store
NullId == 0

Key(i) == <<i.productId, i.variantId>>

Shop(domain) == domain

findShop(domain) == IF domain \in shops THEN domain ELSE ""

customersOf(shopId, n) ==
  {c \in customers : c.shopId = shopId /\ c.shopCustomerId = n}

guestWishlists(shopId, uuid) ==
  {w \in wishlists :
     w.shopId = shopId /\ w.customerId = NullId /\ w.shareUUID = uuid}

customerWishlists(shopId, cid) ==
  {w \in wishlists : w.shopId = shopId /\ w.customerId = cid}

itemsOf(wid) == {i \in items : i.wishlistId = wid}

itemsWithKey(wid, p, v) ==
  {i \in items : i.wishlistId = wid /\ i.productId = p /\ i.variantId = v}

\* Wishlist_shareUUID_key only
WishlistUniqueShareOnly(w) ==
  \A x \in wishlists : x.shareUUID # w.shareUUID

\* Wishlist_shareUUID_key and Wishlist_shopId_customerId_key (NULLs distinct)
WishlistUnique(w) ==
  /\ \A x \in wishlists : x.shareUUID # w.shareUUID
  /\ w.customerId # NullId =>
       \A x \in wishlists :
         ~(x.shopId = w.shopId /\ x.customerId = w.customerId)

\* WishlistItem has no unique index, only WishlistItem_wishlistId_fkey
ItemInsertable(i) == \E w \in wishlists : w.id = i.wishlistId

guestShareUUID(t) == <<GuestPrefix, ToString(t)>>

customerShareUUID(cid, t) == <<"customer_", ToString(cid), ToString(t)>>

\* ---------------------------------------------------------------- requests
Reqs == 1..MaxReqs

NoCount == -1

Idle ==
  [op |-> "idle", pc |-> "idle", shop |-> "", customerId |-> Absent,
   bearer |-> NoToken, hdr |-> Absent, tokenOk |-> FALSE,
   productId |-> 0, variantId |-> 0, handle |-> "", guestToken |-> Absent,
   itemId |-> 0, email |-> "",
   customer |-> 0, wishlist |-> 0, owner |-> 0, guest |-> 0, todo |-> {},
   cur |-> {},
   migratedCount |-> 0, made |-> 0,
   status |-> 0, migrated |-> "", count |-> NoCount, token |-> NoToken,
   item |-> 0, wl |-> 0, wlItems |-> {},
   alone |-> FALSE, preW |-> {}, preI |-> {},
   hmac |-> "", raw |-> "", json |-> FALSE, secret |-> "", next |-> FALSE,
   threw |-> FALSE, parsed |-> [isGuest |-> FALSE, customerId |-> Absent]]

InFlight(q) == q.pc \notin {"idle", "done"}

\* the id (cuid) of the next row request r creates
NewId(r) == r * IdStride + reqs[r].made + 1

\* request r takes a step to record q; every other request in flight has
\* then been interleaved with
Step(r, q) ==
  [x \in Reqs |->
     IF x = r THEN q
     ELSE IF InFlight(reqs[x]) THEN [reqs[x] EXCEPT !.alone = FALSE]
     ELSE reqs[x]]

\* res.status(st).json(...): the handler is over, its locals are gone (the
\* bookkeeping of a migration is kept for the record of what it did)
Respond(q, st) ==
  [q EXCEPT !.pc = "done", !.status = st, !.customer = 0, !.wishlist = 0,
            !.owner = 0, !.todo = {}, !.cur = {},
            !.preW = IF q.op = "migrate" THEN @ ELSE {},
            !.preI = IF q.op = "migrate" THEN @ ELSE {}]

\* req.customerId as the middleware leaves it
authenticateCustomer(shop, bearer, hdr, t) ==
  LET decoded == verifyStorefrontToken(bearer, t)
      fromToken == IF bearer.kind # "none" /\ decoded # NoToken
                      /\ decoded.shop = shop
                   THEN decoded.customerId ELSE Absent
  IN IF fromToken = Absent THEN hdr ELSE fromToken

\* the bearer token is one authenticateCustomer takes the identity from
TokenAccepted(q, t) ==
  /\ q.bearer.kind # "none"
  /\ verifyStorefrontToken(q.bearer, t) # NoToken
  /\ q.bearer.shop = q.shop

\* A request enters the router and passes the middleware.  A handler's
\* first step is taken with its arrival: nothing can tell a request that
\* waits for its first query from one that has not arrived yet.
Arrived(r, op, shop, bearer, hdr) ==
  [Idle EXCEPT !.op = op, !.shop = shop,
     !.customerId = authenticateCustomer(shop, bearer, hdr, now),
     !.bearer = bearer, !.hdr = hdr,
     !.tokenOk = TokenAccepted([bearer |-> bearer, shop |-> shop], now),
     !.alone = \A x \in Reqs : ~InFlight(reqs[x]),
     !.preW = wishlists, !.preI = items]

CanArrive(r) ==
  /\ reqs[r].pc = "idle"
  /\ \A x \in 1..(r - 1) : reqs[x].pc # "idle"

isGuest(q) == parseCustomerId(q.customerId).isGuest

parsedCustomerId(q) == parseCustomerId(q.customerId).customerId

StoreUnchanged == UNCHANGED <<shops, customers, wishlists, items, events>>

EnvUnchanged == UNCHANGED <<now, faults>>

\* --------------------------------------------- POST /items (add to wishlist)
AddBegin(r, shop, bearer, hdr, p, v, h) ==
  LET q == [Arrived(r, "add", shop, bearer, hdr) EXCEPT
              !.productId = p, !.variantId = v, !.handle = h]
  IN
  /\ CanArrive(r)
  /\ reqs' = Step(r,
       IF p = 0 \/ v = 0 \/ h = "" THEN Respond(q, 400)
       ELSE IF findShop(q.shop) = "" THEN Respond(q, 404)
       ELSE IF isGuest(q) THEN [q EXCEPT !.pc = "gwl"]
       ELSE IF ~IsNumeric(parsedCustomerId(q)) THEN Respond(q, 500)
       ELSE [q EXCEPT !.pc = "cust"])
  /\ StoreUnchanged /\ EnvUnchanged

AddCustomer(r) ==
  LET q == reqs[r]
      found == customersOf(q.shop, BigInt(parsedCustomerId(q)))
  IN
  /\ q.op = "add" /\ q.pc = "cust"
  /\ \/ /\ found = {}
        /\ reqs' = Step(r, Respond(q, 404))
     \/ \E c \in found :
          reqs' = Step(r, [q EXCEPT !.customer = c.id, !.pc = "cwl"])
  /\ StoreUnchanged /\ EnvUnchanged

guestLookupUUID(q) ==
  IF parsedCustomerId(q) = Absent THEN <<"default-guest">>
  ELSE parsedCustomerId(q)

guestCreateUUID(q, t) ==
  IF parsedCustomerId(q) = Absent THEN guestShareUUID(t)
  ELSE parsedCustomerId(q)

AddGuestWishlist(r) ==
  LET q == reqs[r]
      found == guestWishlists(q.shop, guestLookupUUID(q))
  IN
  /\ q.op = "add" /\ q.pc = "gwl"
  /\ \/ /\ found = {}
        /\ reqs' = Step(r, [q EXCEPT !.pc = "mkgwl"])
     \/ \E w \in found :
          reqs' = Step(r, [q EXCEPT !.wishlist = w.id, !.pc = "check"])
  /\ StoreUnchanged /\ EnvUnchanged

\* prisma.wishlist.create: the row, or the rejection of a unique index
CreateWishlist(r, q, w, nextPc) ==
  IF WishlistUnique(w)
  THEN /\ wishlists' = wishlists \cup {w}
       /\ reqs' = Step(r, [q EXCEPT !.wishlist = w.id, !.made = @ + 1,
                                    !.pc = nextPc])
  ELSE /\ wishlists' = wishlists
       /\ reqs' = Step(r, Respond(q, 500))

AddCreateGuestWishlist(r) ==
  LET q == reqs[r]
      w == [id |-> NewId(r), shopId |-> q.shop, customerId |-> NullId,
            shareUUID |-> guestCreateUUID(q, now)]
  IN
  /\ q.op = "add" /\ q.pc = "mkgwl"
  /\ CreateWishlist(r, q, w, "check")
  /\ UNCHANGED <<shops, customers, items, events>> /\ EnvUnchanged

AddCustomerWishlist(r) ==
  LET q == reqs[r]
      found == customerWishlists(q.shop, q.customer)
  IN
  /\ q.op = "add" /\ q.pc = "cwl"
  /\ \/ /\ found = {}
        /\ reqs' = Step(r, [q EXCEPT !.pc = "mkcwl"])
     \/ \E w \in found :
          reqs' = Step(r, [q EXCEPT !.wishlist = w.id, !.pc = "check"])
  /\ StoreUnchanged /\ EnvUnchanged

AddCreateCustomerWishlist(r) ==
  LET q == reqs[r]
      w == [id |-> NewId(r), shopId |-> q.shop, customerId |-> q.customer,
            shareUUID |-> customerShareUUID(q.customer, now)]
  IN
  /\ q.op = "add" /\ q.pc = "mkcwl"
  /\ CreateWishlist(r, q, w, "check")
  /\ UNCHANGED <<shops, customers, items, events>> /\ EnvUnchanged

AddCheckOtherWishlists(r) ==
  LET q == reqs[r]
      found == {i \in items : i.wishlistId # q.wishlist
                  /\ i.productId = q.productId /\ i.variantId = q.variantId}
  IN
  /\ q.op = "add" /\ q.pc = "check"
  /\ \/ /\ found = {}
        /\ reqs' = Step(r, [q EXCEPT !.pc = "create"])
     \/ \E i \in found :
          reqs' = Step(r, Respond([q EXCEPT !.item = i.id], 409))
  /\ StoreUnchanged /\ EnvUnchanged

AddCheck(r) ==
  LET q == reqs[r]
      found == itemsWithKey(q.wishlist, q.productId, q.variantId)
  IN
  /\ q.op = "add" /\ q.pc = "check"
  /\ \/ /\ found = {}
        /\ reqs' = Step(r, [q EXCEPT !.pc = "create"])
     \/ \E i \in found :
          reqs' = Step(r, Respond([q EXCEPT !.item = i.id], 409))
  /\ StoreUnchanged /\ EnvUnchanged

\* prisma.wishlistItem.create, then the synchronous build of the event row:
\* `customer` is scoped to the else-block of the lookup, so reading it for a
\* registered caller is a ReferenceError caught as 500
AddCreate(r) ==
  LET q == reqs[r]
      i == [id |-> NewId(r), wishlistId |-> q.wishlist,
            productId |-> q.productId, variantId |-> q.variantId,
            handle |-> q.handle]
  IN
  /\ q.op = "add" /\ q.pc = "create"
  /\ IF ItemInsertable(i)
     THEN /\ items' = items \cup {i}
          /\ reqs' = Step(r,
               IF isGuest(q)
               THEN [q EXCEPT !.item = i.id, !.made = @ + 1, !.pc = "event"]
               ELSE Respond([q EXCEPT !.made = @ + 1], 500))
     ELSE /\ items' = items
          /\ reqs' = Step(r, Respond(q, 500))
  /\ UNCHANGED <<shops, customers, wishlists, events>> /\ EnvUnchanged

AddEvent(r) ==
  LET q == reqs[r]
      e == [id |-> NewId(r), shopId |-> q.shop, customerId |-> NullId,
            type |-> "add", count |-> NoCount]
  IN
  /\ q.op = "add" /\ q.pc = "event"
  /\ events' = events \cup {e}
  /\ reqs' = Step(r, Respond(
       [q EXCEPT !.made = @ + 1,
                 !.token = generateStorefrontToken(q.shop, q.customerId,
                                                   CustomerTtl, now)], 201))
  /\ UNCHANGED <<shops, customers, wishlists, items>> /\ EnvUnchanged

\* ------------------------------------------------- GET / (fetch the wishlist)
FetchBegin(r, shop, bearer, hdr) ==
  LET q == Arrived(r, "fetch", shop, bearer, hdr) IN
  /\ CanArrive(r)
  /\ reqs' = Step(r,
       IF findShop(q.shop) = "" THEN Respond(q, 404)
       ELSE IF isGuest(q) THEN [q EXCEPT !.pc = "gwl"]
       ELSE IF ~IsNumeric(parsedCustomerId(q)) THEN Respond(q, 500)
       ELSE [q EXCEPT !.pc = "cust"])
  /\ StoreUnchanged /\ EnvUnchanged

FetchCustomer(r) ==
  LET q == reqs[r]
      found == customersOf(q.shop, BigInt(parsedCustomerId(q)))
  IN
  /\ q.op = "fetch" /\ q.pc = "cust"
  /\ \/ /\ found = {}
        /\ reqs' = Step(r, Respond(q, 404))
     \/ \E c \in found :
          reqs' = Step(r, [q EXCEPT !.customer = c.id, !.pc = "cwl"])
  /\ StoreUnchanged /\ EnvUnchanged

\* res.json({success, wishlist: {id, shareUUID, items}, token})
FetchOk(q, wid, its, t) ==
  Respond([q EXCEPT !.wl = wid, !.wlItems = its,
                    !.token = generateStorefrontToken(q.shop, q.customerId,
                                                      CustomerTtl, t)], 200)

\* the guest findFirst has no include, so a wishlist it finds carries no
\* items array and wishlist.items.map is a TypeError caught as 500
FetchGuestWishlist(r) ==
  LET q == reqs[r]
      found == guestWishlists(q.shop, guestLookupUUID(q))
  IN
  /\ q.op = "fetch" /\ q.pc = "gwl"
  /\ reqs' = Step(r, IF found = {} THEN [q EXCEPT !.pc = "mkgwl"]
                     ELSE Respond(q, 500))
  /\ StoreUnchanged /\ EnvUnchanged

FetchCreateGuestWishlist(r) ==
  LET q == reqs[r]
      w == [id |-> NewId(r), shopId |-> q.shop, customerId |-> NullId,
            shareUUID |-> guestCreateUUID(q, now)]
  IN
  /\ q.op = "fetch" /\ q.pc = "mkgwl"
  /\ IF WishlistUnique(w)
     THEN /\ wishlists' = wishlists \cup {w}
          /\ reqs' = Step(r, FetchOk([q EXCEPT !.made = @ + 1], w.id, {}, now))
     ELSE /\ wishlists' = wishlists
          /\ reqs' = Step(r, Respond(q, 500))
  /\ UNCHANGED <<shops, customers, items, events>> /\ EnvUnchanged

FetchCustomerWishlist(r) ==
  LET q == reqs[r]
      found == customerWishlists(q.shop, q.customer)
  IN
  /\ q.op = "fetch" /\ q.pc = "cwl"
  /\ \/ /\ found = {}
        /\ reqs' = Step(r, [q EXCEPT !.pc = "mkcwl"])
     \/ \E w \in found :
          reqs' = Step(r, FetchOk(q, w.id, {i.id : i \in itemsOf(w.id)}, now))
  /\ StoreUnchanged /\ EnvUnchanged

FetchCreateCustomerWishlist(r) ==
  LET q == reqs[r]
      w == [id |-> NewId(r), shopId |-> q.shop, customerId |-> q.customer,
            shareUUID |-> customerShareUUID(q.customer, now)]
  IN
  /\ q.op = "fetch" /\ q.pc = "mkcwl"
  /\ IF WishlistUnique(w)
     THEN /\ wishlists' = wishlists \cup {w}
          /\ reqs' = Step(r, FetchOk([q EXCEPT !.made = @ + 1], w.id, {}, now))
     ELSE /\ wishlists' = wishlists
          /\ reqs' = Step(r, Respond(q, 500))
  /\ UNCHANGED <<shops, customers, items, events>> /\ EnvUnchanged

\* ------------------------------------------ DELETE /items/:id (remove item)
DeleteBegin(r, shop, bearer, hdr, id) ==
  LET q == [Arrived(r, "delete", shop, bearer, hdr) EXCEPT !.itemId = id] IN
  /\ CanArrive(r)
  /\ reqs' = Step(r, IF findShop(q.shop) = "" THEN Respond(q, 404)
                     ELSE [q EXCEPT !.pc = "item"])
  /\ StoreUnchanged /\ EnvUnchanged

\* what the handler does once it holds the item with its wishlist w
DeleteOwnerCheck(q, w) ==
  IF w.shopId # q.shop THEN Respond(q, 403)
  ELSE IF ~isGuest(q)
  THEN IF ~IsNumeric(parsedCustomerId(q)) THEN Respond(q, 500)
       ELSE [q EXCEPT !.owner = w.customerId, !.pc = "cust"]
  ELSE IF w.customerId # NullId THEN Respond(q, 403)
  ELSE [q EXCEPT !.pc = "del"]

DeleteFindItem(r) ==
  LET q == reqs[r]
      found == {i \in items : i.id = q.itemId}
  IN
  /\ q.op = "delete" /\ q.pc = "item"
  /\ \/ /\ found = {}
        /\ reqs' = Step(r, Respond(q, 404))
     \/ \E i \in found : \E w \in wishlists :
          /\ w.id = i.wishlistId
          /\ reqs' = Step(r, DeleteOwnerCheck(q, w))
  /\ StoreUnchanged /\ EnvUnchanged

\* the possible continuations after customer.findFirst returned one of found
DeleteCustomerCheck(q, found) ==
  IF found = {} THEN {Respond(q, 403)}
  ELSE {IF q.owner # c.id THEN Respond(q, 403) ELSE [q EXCEPT !.pc = "del"] :
          c \in found}

DeleteCustomer(r) ==
  LET q == reqs[r]
      found == customersOf(q.shop, BigInt(parsedCustomerId(q)))
  IN
  /\ q.op = "delete" /\ q.pc = "cust"
  /\ \E q2 \in DeleteCustomerCheck(q, found) : reqs' = Step(r, q2)
  /\ StoreUnchanged /\ EnvUnchanged

\* prisma.wishlistItem.delete, then the synchronous build of the event row:
\* `customer` is scoped to the if-block of the ownership check, so reading it
\* for a registered caller is a ReferenceError caught as 500
DeleteItem(r) ==
  LET q == reqs[r]
      found == {i \in items : i.id = q.itemId}
  IN
  /\ q.op = "delete" /\ q.pc = "del"
  /\ IF found = {}
     THEN /\ items' = items
          /\ reqs' = Step(r, Respond(q, 500))
     ELSE /\ items' = items \ found
          /\ reqs' = Step(r, IF isGuest(q) THEN [q EXCEPT !.pc = "event"]
                             ELSE Respond(q, 500))
  /\ UNCHANGED <<shops, customers, wishlists, events>> /\ EnvUnchanged

DeleteEvent(r) ==
  LET q == reqs[r]
      e == [id |-> NewId(r), shopId |-> q.shop, customerId |-> NullId,
            type |-> "remove", count |-> NoCount]
  IN
  /\ q.op = "delete" /\ q.pc = "event"
  /\ events' = events \cup {e}
  /\ reqs' = Step(r, Respond(
       [q EXCEPT !.made = @ + 1,
                 !.token = generateStorefrontToken(q.shop, q.customerId,
                                                   CustomerTtl, now)], 200))
  /\ UNCHANGED <<shops, customers, wishlists, items>> /\ EnvUnchanged

\* ------------------------------------ POST /migrate (guest -> customer merge)
MigrateBegin(r, shop, bearer, hdr, gt) ==
  LET q == [Arrived(r, "migrate", shop, bearer, hdr) EXCEPT !.guestToken = gt]
  IN
  /\ CanArrive(r)
  /\ reqs' = Step(r,
       IF gt = Absent THEN Respond(q, 400)
       ELSE IF isGuest(q) THEN Respond(q, 400)
       ELSE IF findShop(q.shop) = "" THEN Respond(q, 404)
       ELSE IF ~IsNumeric(parsedCustomerId(q)) THEN Respond(q, 500)
       ELSE [q EXCEPT !.pc = "cust"])
  /\ StoreUnchanged /\ EnvUnchanged

MigrateCustomer(r) ==
  LET q == reqs[r]
      found == customersOf(q.shop, BigInt(parsedCustomerId(q)))
  IN
  /\ q.op = "migrate" /\ q.pc = "cust"
  /\ \/ /\ found = {}
        /\ reqs' = Step(r, Respond(q, 404))
     \/ \E c \in found :
          reqs' = Step(r, [q EXCEPT !.customer = c.id, !.pc = "gwl"])
  /\ StoreUnchanged /\ EnvUnchanged

\* const guestId = guestToken.replace('guest_', '')
guestIdOf(q) == replaceGuest(q.guestToken)

\* res.json({success, message, migrated: false}): no count, no token
MigrateNothing(q) == Respond([q EXCEPT !.migrated = "false"], 200)

MigrateGuestWishlist(r) ==
  LET q == reqs[r]
      found == guestWishlists(q.shop, guestIdOf(q))
  IN
  /\ q.op = "migrate" /\ q.pc = "gwl"
  /\ \/ /\ \A w \in found : itemsOf(w.id) = {}
        /\ reqs' = Step(r, MigrateNothing(q))
     \/ \E w \in found :
          /\ itemsOf(w.id) # {}
          /\ reqs' = Step(r, [q EXCEPT !.guest = w.id, !.todo = itemsOf(w.id),
                                       !.pc = "cwl"])
  /\ StoreUnchanged /\ EnvUnchanged

MigrateCustomerWishlist(r) ==
  LET q == reqs[r]
      found == customerWishlists(q.shop, q.customer)
  IN
  /\ q.op = "migrate" /\ q.pc = "cwl"
  /\ \/ /\ found = {}
        /\ reqs' = Step(r, [q EXCEPT !.pc = "mkcwl"])
     \/ \E w \in found :
          reqs' = Step(r, [q EXCEPT !.wishlist = w.id, !.pc = "find"])
  /\ StoreUnchanged /\ EnvUnchanged

MigrateCreateCustomerWishlist(r) ==
  LET q == reqs[r]
      w == [id |-> NewId(r), shopId |-> q.shop, customerId |-> q.customer,
            shareUUID |-> customerShareUUID(q.customer, now)]
  IN
  /\ q.op = "migrate" /\ q.pc = "mkcwl"
  /\ CreateWishlist(r, q, w, "find")
  /\ UNCHANGED <<shops, customers, items, events>> /\ EnvUnchanged

\* the loop goes on with the items left, or leaves for the delete
LoopNext(q, left) ==
  [q EXCEPT !.todo = left, !.cur = {},
            !.pc = IF left = {} THEN "delete" ELSE "find"]

\* one turn of the loop up to its findFirst: the next guest item (the order
\* of guestWishlist.items is the storage's) is looked up in the target
MigrateFind(r) ==
  LET q == reqs[r] IN
  /\ q.op = "migrate" /\ q.pc = "find"
  /\ \E it \in q.todo :
       reqs' = Step(r,
         IF itemsWithKey(q.wishlist, it.productId, it.variantId) # {}
         THEN LoopNext(q, q.todo \ {it})
         ELSE [q EXCEPT !.cur = {it}, !.pc = "create"])
  /\ StoreUnchanged /\ EnvUnchanged

MigrateCreate(r) ==
  LET q == reqs[r] IN
  /\ q.op = "migrate" /\ q.pc = "create"
  /\ \E it \in q.cur :
       LET i == [id |-> NewId(r), wishlistId |-> q.wishlist,
                 productId |-> it.productId, variantId |-> it.variantId,
                 handle |-> it.handle]
       IN IF ItemInsertable(i)
          THEN /\ items' = items \cup {i}
               /\ reqs' = Step(r, LoopNext(
                    [q EXCEPT !.made = @ + 1, !.migratedCount = @ + 1],
                    q.todo \ {it}))
          ELSE /\ items' = items
               /\ reqs' = Step(r, Respond(q, 500))
  /\ UNCHANGED <<shops, customers, wishlists, events>> /\ EnvUnchanged

\* prisma.wishlist.delete: the row and (ON DELETE CASCADE) its items, or a
\* rejection when the row is gone
MigrateDelete(r) ==
  LET q == reqs[r] IN
  /\ q.op = "migrate" /\ q.pc = "delete"
  /\ IF \E w \in wishlists : w.id = q.guest
     THEN /\ wishlists' = {w \in wishlists : w.id # q.guest}
          /\ items' = {i \in items : i.wishlistId # q.guest}
          /\ reqs' = Step(r, [q EXCEPT !.pc = "event"])
     ELSE /\ UNCHANGED <<wishlists, items>>
          /\ reqs' = Step(r, Respond(q, 500))
  /\ UNCHANGED <<shops, customers, events>> /\ EnvUnchanged

MigrateEvent(r) ==
  LET q == reqs[r]
      e == [id |-> NewId(r), shopId |-> q.shop, customerId |-> q.customer,
            type |-> "migrate", count |-> q.migratedCount]
  IN
  /\ q.op = "migrate" /\ q.pc = "event"
  /\ events' = events \cup {e}
  /\ reqs' = Step(r, Respond(
       [q EXCEPT !.made = @ + 1, !.migrated = "true",
                 !.count = q.migratedCount,
                 !.token = generateStorefrontToken(q.shop, q.customerId,
                                                   CustomerTtl, now)], 200))
  /\ UNCHANGED <<shops, customers, wishlists, items>> /\ EnvUnchanged

\* an awaited storage call of the fold rejects (the connection is lost, the
\* statement is cancelled): the catch block answers 500, nothing is undone
MigrateInterrupted(r) ==
  LET q == reqs[r] IN
  /\ q.op = "migrate" /\ q.pc \in {"find", "create", "delete"}
  /\ faults < MaxFaults
  /\ faults' = faults + 1
  /\ reqs' = Step(r, Respond(q, 500))
  /\ StoreUnchanged /\ UNCHANGED now

\* -------------------------------------------------------------------- clock
Tick(d, max) ==
  /\ now + d <= max
  /\ now' = now + d
  /\ UNCHANGED <<shops, customers, wishlists, items, events, reqs, faults>>

\* ------------------------------------- SessionManager.createCustomerSession
\* customerData = {id, email}; the call ends by returning (200) or by
\* rethrowing the storage error ("throw" is status 500 here)
SessionBegin(r, shop, id, email) ==
  LET q == [Idle EXCEPT !.op = "session", !.shop = shop, !.customerId = id,
              !.email = email,
              !.alone = \A x \in Reqs : ~InFlight(reqs[x])]
  IN
  /\ CanArrive(r)
  /\ reqs' = Step(r, IF findShop(shop) = "" THEN [q EXCEPT !.pc = "mkshop"]
                     ELSE [q EXCEPT !.pc = "cust"])
  /\ StoreUnchanged /\ EnvUnchanged

\* prisma.shop.create under Shop_domain_key
SessionCreateShop(r) ==
  LET q == reqs[r] IN
  /\ q.op = "session" /\ q.pc = "mkshop"
  /\ IF q.shop \notin shops
     THEN /\ shops' = shops \cup {Shop(q.shop)}
          /\ reqs' = Step(r, [q EXCEPT !.pc = "cust"])
     ELSE /\ shops' = shops
          /\ reqs' = Step(r, Respond(q, 500))
  /\ UNCHANGED <<customers, wishlists, items, events>> /\ EnvUnchanged

SessionFindCustomer(r) ==
  LET q == reqs[r]
      found == customersOf(q.shop, BigInt(q.customerId))
  IN
  /\ q.op = "session" /\ q.pc = "cust"
  /\ \/ /\ found = {}
        /\ reqs' = Step(r, [q EXCEPT !.pc = "mkcust"])
     \/ \E c \in found :
          reqs' = Step(r, [q EXCEPT !.customer = c.id, !.pc = "upd"])
  /\ StoreUnchanged /\ EnvUnchanged

\* return {success, customer, token, expiresIn: 3600}
SessionOk(q, t) ==
  Respond([q EXCEPT !.token = generateStorefrontToken(q.shop, q.customerId,
                                                      CustomerTtl, t)], 200)

\* Customer_shopId_shopCustomerId_idx is an index, not a constraint
CustomerInsertable(c) == c.shopId \in shops

SessionCreateCustomer(r) ==
  LET q == reqs[r]
      c == [id |-> NewId(r), shopId |-> q.shop,
            shopCustomerId |-> BigInt(q.customerId), email |-> q.email]
  IN
  /\ q.op = "session" /\ q.pc = "mkcust"
  /\ IF CustomerInsertable(c)
     THEN /\ customers' = customers \cup {c}
          /\ reqs' = Step(r, SessionOk([q EXCEPT !.made = @ + 1], now))
     ELSE /\ customers' = customers
          /\ reqs' = Step(r, Respond(q, 500))
  /\ UNCHANGED <<shops, wishlists, items, events>> /\ EnvUnchanged

SessionUpdateCustomer(r) ==
  LET q == reqs[r] IN
  /\ q.op = "session" /\ q.pc = "upd"
  /\ customers' = {IF c.id = q.customer THEN [c EXCEPT !.email = q.email]
                   ELSE c : c \in customers}
  /\ reqs' = Step(r, SessionOk(q, now))
  /\ UNCHANGED <<shops, wishlists, items, events>> /\ EnvUnchanged

\* ------------------------------------------- SessionManager.validateSession
\* one call: the session it returns is kept in token, NoToken for null
ValidateSession(r, token, shop) ==
  LET q == [Idle EXCEPT !.op = "validate", !.shop = shop, !.bearer = token,
              !.alone = \A x \in Reqs : ~InFlight(reqs[x])]
  IN
  /\ CanArrive(r)
  /\ reqs' = Step(r, Respond(
       [q EXCEPT !.token = validateSession(token, shop, now)], 200))
  /\ StoreUnchanged /\ EnvUnchanged

\* ---------------------------------------------- proxy-auth token functions
\* one call of generateStorefrontToken(shop, customerId, expiresIn)
SignToken(r, shop, customerId, expiresIn) ==
  LET q == [Idle EXCEPT !.op = "sign", !.shop = shop,
              !.customerId = customerId,
              !.alone = \A x \in Reqs : ~InFlight(reqs[x])]
  IN
  /\ CanArrive(r)
  /\ reqs' = Step(r, Respond(
       [q EXCEPT !.token = generateStorefrontToken(shop, customerId,
                                                   expiresIn, now)], 200))
  /\ StoreUnchanged /\ EnvUnchanged

\* one call of verifyStorefrontToken(token): the payload, NoToken for null
VerifyToken(r, token) ==
  LET q == [Idle EXCEPT !.op = "verify", !.bearer = token,
              !.alone = \A x \in Reqs : ~InFlight(reqs[x])]
  IN
  /\ CanArrive(r)
  /\ reqs' = Step(r, Respond(
       [q EXCEPT !.token = verifyStorefrontToken(token, now)], 200))
  /\ StoreUnchanged /\ EnvUnchanged

\* -------------------------------------------- SessionManager.refreshSession
refreshSessionParsedSubject(token, shop, t) ==
  LET session == validateSession(token, shop, t) IN
  IF session = NoToken THEN NoToken
  ELSE generateStorefrontToken(
         shop, parseCustomerId(session.customerId).customerId, CustomerTtl, t)

\* the new token, NoToken for null; nothing in the body can throw past the
\* catch, which returns null as well
refreshSession(token, shop, t) ==
  LET session == validateSession(token, shop, t) IN
  IF session = NoToken THEN NoToken
  ELSE generateStorefrontToken(shop, session.customerId, CustomerTtl, t)

RefreshSession(r, token, shop) ==
  LET q == [Idle EXCEPT !.op = "refresh", !.shop = shop, !.bearer = token,
              !.alone = \A x \in Reqs : ~InFlight(reqs[x])]
  IN
  /\ CanArrive(r)
  /\ reqs' = Step(r, Respond(
       [q EXCEPT !.token = refreshSession(token, shop, now)], 200))
  /\ StoreUnchanged /\ EnvUnchanged

\* ----------------------------------------- SessionManager.createGuestSession
\* guestId || `guest_${Date.now()}_${random}`
sessionGuestId(guestId, t) ==
  IF guestId = Absent THEN <<GuestPrefix, ToString(t), "rnd">> ELSE guestId

\* return {success, guest, token, expiresIn: 86400}
GuestSessionOk(q, t) ==
  Respond([q EXCEPT !.token = generateGuestToken(
                      q.shop, sessionGuestId(q.guestToken, t), t)], 200)

GuestSessionBegin(r, shop, guestId) ==
  LET q == [Idle EXCEPT !.op = "guest", !.shop = shop, !.guestToken = guestId,
              !.alone = \A x \in Reqs : ~InFlight(reqs[x])]
  IN
  /\ CanArrive(r)
  /\ reqs' = Step(r, IF findShop(shop) = "" THEN [q EXCEPT !.pc = "mkshop"]
                     ELSE GuestSessionOk(q, now))
  /\ StoreUnchanged /\ EnvUnchanged

GuestSessionCreateShop(r) ==
  LET q == reqs[r] IN
  /\ q.op = "guest" /\ q.pc = "mkshop"
  /\ IF q.shop \notin shops
     THEN /\ shops' = shops \cup {Shop(q.shop)}
          /\ reqs' = Step(r, GuestSessionOk(q, now))
     ELSE /\ shops' = shops
          /\ reqs' = Step(r, Respond(q, 500))
  /\ UNCHANGED <<customers, wishlists, items, events>> /\ EnvUnchanged

\* ------------------------------------------------- proxy-auth request check
\* A header value is a base64 text: the bytes it decodes to, their number,
\* and its spelling (decoding skips padding and foreign characters, so
\* several spellings decode to the same bytes).
DigestLen == 32

NoHmac == [bytes |-> <<>>, len |-> 0, form |-> "absent"]

\* crypto.createHmac('sha256', secret).update(body).digest()
hmacSha256(body, secret) == <<"hmac", body, secret>>

\* .digest('base64')
digestBase64(body, secret) ==
  [bytes |-> hmacSha256(body, secret), len |-> DigestLen,
   form |-> "canonical"]

\* Buffer.from(text, 'base64')
fromBase64(text) == [bytes |-> text.bytes, len |-> text.len]

\* crypto.timingSafeEqual: a RangeError when the lengths differ
timingSafeEqual(a, b) ==
  IF a.len # b.len THEN "throw"
  ELSE IF a.bytes = b.bytes THEN "true" ELSE "false"

\* express.json's verify hook sets req.rawBody only when it reads a JSON body
rawBodyCaptured(q) == q.json /\ q.raw # ""

\* req.rawBody || JSON.stringify(req.body): without a captured body req.body
\* is {} (or undefined, and Buffer.from(undefined) is a TypeError)
rawBodies(q) ==
  IF rawBodyCaptured(q) THEN {q.raw} ELSE {"{}", "throw"}

\* the outcomes of verifyAppProxyHMAC(req, shopifyApiSecret)
verifyAppProxyHMAC(q, shopifyApiSecret) ==
  IF q.hmac = NoHmac THEN {"false"}
  ELSE {IF b = "throw" THEN "throw"
        ELSE timingSafeEqual(fromBase64(q.hmac),
                             fromBase64(digestBase64(b, shopifyApiSecret))) :
          b \in rawBodies(q)}

\* the middleware ends the request, or attaches the shop and calls next();
\* an exception it lets escape is answered 500 by the framework
verifyAppProxyRequest(q, outcome) ==
  IF q.secret = "" THEN Respond(q, 500)
  ELSE IF outcome = "throw" THEN Respond([q EXCEPT !.threw = TRUE], 500)
  ELSE IF outcome = "false" THEN Respond(q, 401)
  ELSE IF q.shop = "" THEN Respond(q, 400)
  ELSE [Respond(q, 0) EXCEPT !.next = TRUE]

ProxyRequest(r, secret, hmac, raw, json, shop) ==
  LET q == [Idle EXCEPT !.op = "proxy", !.secret = secret, !.hmac = hmac,
              !.raw = raw, !.json = json, !.shop = shop,
              !.alone = \A x \in Reqs : ~InFlight(reqs[x])]
  IN
  /\ CanArrive(r)
  /\ \E outcome \in verifyAppProxyHMAC(q, secret) :
       reqs' = Step(r, verifyAppProxyRequest(q, outcome))
  /\ StoreUnchanged /\ EnvUnchanged

\* ------------------------------------------------- the wishlist specification
\* One shop with two registered customers; the guest with key g1 and
\* customer 1 may each already own a wishlist holding any of the two products.
ShopX == "X"
ShopY == "Y"
KeyA == <<100, 200>>
KeyB == <<101, 200>>
Keys == {KeyA, KeyB}
G1 == <<"g1">>
Cust1 == <<"1">>
Cust2 == <<"2">>

ItemRow(id, wid, k) ==
  [id |-> id, wishlistId |-> wid, productId |-> k[1], variantId |-> k[2],
   handle |-> "shoe"]

CustomerRow(id, shop, n) ==
  [id |-> id, shopId |-> shop, shopCustomerId |-> n, email |-> "a@x"]

GuestWl == [id |-> 3, shopId |-> ShopX, customerId |-> NullId,
            shareUUID |-> G1]

\* the wishlist of another guest, g2, who has fetched once
GuestWl2 == [id |-> 9, shopId |-> ShopX, customerId |-> NullId,
             shareUUID |-> <<"g2">>]

CustWl == [id |-> 4, shopId |-> ShopX, customerId |-> 1,
           shareUUID |-> customerShareUUID(1, 0)]

InitRequests ==
  /\ reqs = [r \in Reqs |-> Idle]
  /\ now = 0
  /\ faults = 0
  /\ events = {}

Init ==
  /\ shops = {ShopX}
  /\ customers = {CustomerRow(1, ShopX, 1), CustomerRow(2, ShopX, 2)}
  /\ \E hasG \in BOOLEAN, hasC \in BOOLEAN :
     \E G \in SUBSET Keys, C \in SUBSET Keys :
       /\ hasG \/ G = {}
       /\ hasC \/ C = {}
       /\ wishlists = {GuestWl2} \cup (IF hasG THEN {GuestWl} ELSE {})
                      \cup (IF hasC THEN {CustWl} ELSE {})
       /\ items = {ItemRow(IF k = KeyA THEN 5 ELSE 6, 3, k) : k \in G}
                  \cup {ItemRow(IF k = KeyA THEN 7 ELSE 8, 4, k) : k \in C}
  /\ InitRequests

TokC1 == generateStorefrontToken(ShopX, Cust1, CustomerTtl, 0)
TokG1 == generateGuestToken(ShopX, G1, 0)
Bearers == {TokC1, TokG1}

ArriveFetch ==
  \E r \in Reqs, b \in Bearers : FetchBegin(r, ShopX, b, Absent)

ArriveAdd ==
  \E r \in Reqs, b \in Bearers, k \in Keys :
    AddBegin(r, ShopX, b, Absent, k[1], k[2], "shoe")

ArriveMigrate ==
  \E r \in Reqs :
    MigrateBegin(r, ShopX, TokC1, Absent, <<GuestPrefix>> \o G1)

DoAddCustomer == \E r \in Reqs : AddCustomer(r)
DoAddGuestWishlist == \E r \in Reqs : AddGuestWishlist(r)
DoAddCreateGuestWishlist == \E r \in Reqs : AddCreateGuestWishlist(r)
DoAddCustomerWishlist == \E r \in Reqs : AddCustomerWishlist(r)
DoAddCreateCustomerWishlist == \E r \in Reqs : AddCreateCustomerWishlist(r)
DoAddCheck == \E r \in Reqs : AddCheck(r)
DoAddCreate == \E r \in Reqs : AddCreate(r)
DoAddEvent == \E r \in Reqs : AddEvent(r)
DoFetchCustomer == \E r \in Reqs : FetchCustomer(r)
DoFetchGuestWishlist == \E r \in Reqs : FetchGuestWishlist(r)
DoFetchCreateGuestWishlist == \E r \in Reqs : FetchCreateGuestWishlist(r)
DoFetchCustomerWishlist == \E r \in Reqs : FetchCustomerWishlist(r)
DoFetchCreateCustomerWishlist == \E r \in Reqs : FetchCreateCustomerWishlist(r)
DoMigrateCustomer == \E r \in Reqs : MigrateCustomer(r)
DoMigrateGuestWishlist == \E r \in Reqs : MigrateGuestWishlist(r)
DoMigrateCustomerWishlist == \E r \in Reqs : MigrateCustomerWishlist(r)
DoMigrateCreateCustomerWishlist ==
  \E r \in Reqs : MigrateCreateCustomerWishlist(r)
DoMigrateFind == \E r \in Reqs : MigrateFind(r)
DoMigrateCreate == \E r \in Reqs : MigrateCreate(r)
DoMigrateDelete == \E r \in Reqs : MigrateDelete(r)
DoMigrateEvent == \E r \in Reqs : MigrateEvent(r)
DoMigrateInterrupted == \E r \in Reqs : MigrateInterrupted(r)
TickWish == Tick(1, MaxNow)

AddSteps ==
  \/ DoAddCustomer \/ DoAddGuestWishlist
  \/ DoAddCreateGuestWishlist \/ DoAddCustomerWishlist
  \/ DoAddCreateCustomerWishlist \/ DoAddCheck \/ DoAddCreate \/ DoAddEvent

FetchSteps ==
  \/ DoFetchCustomer \/ DoFetchGuestWishlist
  \/ DoFetchCreateGuestWishlist \/ DoFetchCustomerWishlist
  \/ DoFetchCreateCustomerWishlist

MigrateSteps ==
  \/ DoMigrateCustomer \/ DoMigrateGuestWishlist
  \/ DoMigrateCustomerWishlist \/ DoMigrateCreateCustomerWishlist
  \/ DoMigrateFind \/ DoMigrateCreate \/ DoMigrateDelete \/ DoMigrateEvent

Next ==
  \/ ArriveFetch \/ ArriveAdd \/ ArriveMigrate
  \/ AddSteps \/ FetchSteps \/ MigrateSteps
  \/ DoMigrateInterrupted
  \/ TickWish

Spec == Init /\ [][Next]_vars

\* ------------------------------------------------ the session specification
\* An empty store; sessions are opened for two customers of two shops.
Emails == {"a@x", "b@x"}

InitSession ==
  /\ shops = {}
  /\ customers = {}
  /\ wishlists = {}
  /\ items = {}
  /\ InitRequests

ArriveSession ==
  \E r \in Reqs, s \in {ShopX, ShopY}, id \in {Cust1, Cust2}, e \in Emails :
    SessionBegin(r, s, id, e)

DoSessionCreateShop == \E r \in Reqs : SessionCreateShop(r)
DoSessionFindCustomer == \E r \in Reqs : SessionFindCustomer(r)
DoSessionCreateCustomer == \E r \in Reqs : SessionCreateCustomer(r)
DoSessionUpdateCustomer == \E r \in Reqs : SessionUpdateCustomer(r)

NextSession ==
  \/ ArriveSession
  \/ DoSessionCreateShop \/ DoSessionFindCustomer
  \/ DoSessionCreateCustomer \/ DoSessionUpdateCustomer

SpecSession == InitSession /\ [][NextSession]_vars

\* -------------------------------------------------- the owner specification
\* Customer 1 and guest g1 each own a wishlist with one item; the item of
\* customer 1 is removed under every kind of identity.
TokC2 == generateStorefrontToken(ShopX, Cust2, CustomerTtl, 0)
G2 == <<"g2">>
TokG2 == generateGuestToken(ShopX, G2, 0)
GuestItem == ItemRow(5, 3, KeyA)
CustItem == ItemRow(7, 4, KeyA)

InitOwner ==
  /\ shops = {ShopX}
  /\ customers = {CustomerRow(1, ShopX, 1), CustomerRow(2, ShopX, 2)}
  /\ wishlists = {GuestWl, CustWl}
  /\ items = {GuestItem, CustItem}
  /\ InitRequests

ArriveDelete ==
  \E r \in Reqs, b \in {TokC1, TokC2, TokG1, TokG2, NoToken},
     i \in {GuestItem.id, CustItem.id} :
    DeleteBegin(r, ShopX, b, Absent, i)

DoDeleteFindItem == \E r \in Reqs : DeleteFindItem(r)
DoDeleteCustomer == \E r \in Reqs : DeleteCustomer(r)
DoDeleteItem == \E r \in Reqs : DeleteItem(r)
DoDeleteEvent == \E r \in Reqs : DeleteEvent(r)

DeleteSteps ==
  \/ DoDeleteFindItem \/ DoDeleteCustomer \/ DoDeleteItem \/ DoDeleteEvent

NextOwner == ArriveDelete \/ DeleteSteps

SpecOwner == InitOwner /\ [][NextOwner]_vars

\* --------------------------------------------------- the token specification
\* Two shops, each with a customer 2; requests to shop X carry every kind of
\* bearer token (none, malformed, forged, expired, of customer 2 of shop Y,
\* good) and an optional customer id header naming customer 2, while the
\* clock passes the expiry of the tokens issued at 0.
AuthTimes ==
  {0, CustomerTtl - 1, CustomerTtl, GuestTtl - 1, GuestTtl, GuestTtl + 1}

TickAuth ==
  \E t \in AuthTimes :
    /\ t > now
    /\ \A u \in AuthTimes : ~(now < u /\ u < t)
    /\ Cardinality({u \in AuthTimes : u <= t}) <= MaxAuthTicks + 1
    /\ Tick(t - now, t)

TokY1 == generateStorefrontToken(ShopY, Cust2, CustomerTtl, 0)
IssuedTokens == {TokC1, TokY1, TokG1}
AuthBearers == IssuedTokens \cup {NoToken, Malformed, Forged(TokC1)}
AuthShops == {ShopX, ShopY}
AuthHeaders == {Absent, Cust2}

InitAuth ==
  /\ shops = AuthShops
  /\ customers = {CustomerRow(1, ShopX, 1), CustomerRow(2, ShopX, 2),
                  CustomerRow(6, ShopY, 2)}
  /\ wishlists = {GuestWl, CustWl}
  /\ items = {GuestItem, CustItem}
  /\ InitRequests

AuthSlots == 1..AuthReqs

AuthAdd ==
  \E r \in AuthSlots, b \in AuthBearers, h \in AuthHeaders :
    AddBegin(r, ShopX, b, h, KeyB[1], KeyB[2], "shoe")

AuthDelete ==
  \E r \in AuthSlots, b \in AuthBearers, h \in AuthHeaders,
     i \in {GuestItem.id, CustItem.id} :
    DeleteBegin(r, ShopX, b, h, i)

AuthMigrate ==
  \E r \in AuthSlots, b \in AuthBearers, h \in AuthHeaders :
    MigrateBegin(r, ShopX, b, h, <<GuestPrefix>> \o G1)

AuthValidate ==
  \E r \in AuthSlots, b \in AuthBearers, s \in AuthShops :
    ValidateSession(r, b, s)

NextAuth ==
  \/ AuthAdd \/ AuthDelete \/ AuthMigrate
  \/ AddSteps \/ DeleteSteps \/ MigrateSteps
  \/ AuthValidate
  \/ TickAuth

SpecAuth == InitAuth /\ [][NextAuth]_vars

\* ----------------------------------------------------- the fold specification
\* Migrations of guest g1 into customer 1 among additions of product A by the
\* two of them, from every store of the wishlist specification.
FoldAdd ==
  \E r \in Reqs, b \in Bearers :
    AddBegin(r, ShopX, b, Absent, KeyA[1], KeyA[2], "shoe")

NextFold ==
  \/ ArriveMigrate \/ FoldAdd
  \/ AddSteps \/ MigrateSteps

SpecFold == Init /\ [][NextFold]_vars

\* ----------------------------------------------------- the race specification
\* Customer 1 has no wishlist yet; fetch, add and migrate requests of customer
\* 1 and a fetch of guest g1 each look one up and create it, as the clock runs.
InitRace ==
  /\ shops = {ShopX}
  /\ customers = {CustomerRow(1, ShopX, 1), CustomerRow(2, ShopX, 2)}
  /\ \E hasG \in BOOLEAN :
       /\ wishlists = {GuestWl2} \cup (IF hasG THEN {GuestWl} ELSE {})
       /\ items = IF hasG THEN {GuestItem} ELSE {}
  /\ InitRequests

RaceFetch == \E r \in Reqs, b \in Bearers : FetchBegin(r, ShopX, b, Absent)

RaceAdd ==
  \E r \in Reqs : AddBegin(r, ShopX, TokC1, Absent, KeyA[1], KeyA[2], "shoe")

NextRace ==
  \/ RaceFetch \/ RaceAdd \/ ArriveMigrate
  \/ DoAddCustomer \/ DoAddCustomerWishlist \/ DoAddCreateCustomerWishlist
  \/ DoAddCheck \/ DoAddCreate
  \/ FetchSteps \/ MigrateSteps
  \/ TickWish

SpecRace == InitRace /\ [][NextRace]_vars

\* -------------------------------------------------- the lifetime specification
\* Tokens are signed, verified, validated and refreshed, and customer and
\* guest sessions are opened, for two shops while the clock runs past both
\* lifetimes.  The tokens presented are those signed at 0 for every shop,
\* subject and lifetime, those the calls so far returned, a forged one, a
\* malformed one and none.
TokenSubjects == {Cust1, <<GuestPrefix>> \o G1}
TokenLifetimes == {CustomerTtl, GuestTtl}

SignedAtZero ==
  {generateStorefrontToken(s, c, l, 0) :
     s \in AuthShops, c \in TokenSubjects, l \in TokenLifetimes}

Returned ==
  {reqs[x].token : x \in {y \in Reqs :
     reqs[y].pc = "done"
     /\ reqs[y].op \in {"sign", "refresh", "session", "guest"}}} \ {NoToken}

Presented ==
  SignedAtZero \cup Returned \cup {Forged(TokC1), NoToken, Malformed}

InitToken ==
  /\ shops = {ShopX}
  /\ customers = {CustomerRow(1, ShopX, 1)}
  /\ wishlists = {}
  /\ items = {}
  /\ InitRequests

TickToken == \E t \in AuthTimes : t > now /\ Tick(t - now, t)

TokenSign ==
  \E r \in AuthSlots, s \in AuthShops, c \in TokenSubjects,
     l \in TokenLifetimes : SignToken(r, s, c, l)

TokenVerify == \E r \in AuthSlots, b \in Presented : VerifyToken(r, b)

TokenValidate ==
  \E r \in AuthSlots, b \in Presented, s \in AuthShops :
    ValidateSession(r, b, s)

TokenRefresh ==
  \E r \in AuthSlots, b \in Presented, s \in AuthShops :
    RefreshSession(r, b, s)

TokenGuestSession ==
  \E r \in AuthSlots, s \in AuthShops, g \in {Absent, G1} :
    GuestSessionBegin(r, s, g)

TokenCustomerSession ==
  \E r \in AuthSlots, s \in AuthShops, c \in {Cust1, Cust2} :
    SessionBegin(r, s, c, "b@x")

DoGuestSessionCreateShop == \E r \in Reqs : GuestSessionCreateShop(r)

NextToken ==
  \/ TokenSign \/ TokenVerify \/ TokenValidate \/ TokenRefresh
  \/ TokenGuestSession \/ DoGuestSessionCreateShop
  \/ TokenCustomerSession
  \/ DoSessionCreateShop \/ DoSessionFindCustomer
  \/ DoSessionCreateCustomer \/ DoSessionUpdateCustomer
  \/ TickToken

SpecToken == InitToken /\ [][NextToken]_vars

\* ----------------------------------------------------- the proxy specification
\* Requests with and without a JSON body reach the signature check carrying
\* no signature, the upstream's signature of some body under the shared or
\* another secret, a second spelling of it, or a text of another length.
SharedSecret == "k"
Bodies == {"", "{}", "{a}"}

Signatures ==
  {digestBase64(b, k) : b \in Bodies, k \in {SharedSecret, "k2"}}
  \cup {[digestBase64("{a}", SharedSecret) EXCEPT !.form = "unpadded"]}
  \cup {[bytes |-> <<"short">>, len |-> DigestLen - 1, form |-> "canonical"]}
  \cup {NoHmac}

ProxyArrive ==
  \E r \in AuthSlots, k \in {"", SharedSecret}, h \in Signatures,
     b \in Bodies, j \in BOOLEAN, s \in {"", ShopX} :
    ProxyRequest(r, k, h, b, j, s)

NextProxy == ProxyArrive

SpecProxy == InitToken /\ [][NextProxy]_vars

\* -------------------------------------------------- the resolver specification
\* parseCustomerId applied to every identifier of up to MaxIdLen chunks, the
\* empty one (null, undefined, '') included.
MaxIdLen == 3
IdChunks == {GuestPrefix, "guest", "1", "a"}

Identifiers == UNION {[1..n -> IdChunks] : n \in 0..MaxIdLen}

InitResolve ==
  /\ shops = {ShopX}
  /\ customers = {}
  /\ wishlists = {}
  /\ items = {}
  /\ events = {}
  /\ now = 0
  /\ faults = 0
  /\ \E v \in Identifiers :
       reqs = [r \in Reqs |->
                 IF r = 1
                 THEN [Idle EXCEPT !.op = "parse", !.pc = "parse",
                                   !.customerId = v]
                 ELSE Idle]

ParseCustomerId(r) ==
  /\ reqs[r].pc = "parse"
  /\ reqs' = Step(r, [reqs[r] EXCEPT !.pc = "done",
                        !.parsed = parseCustomerId(reqs[r].customerId)])
  /\ StoreUnchanged /\ EnvUnchanged

NextResolve == \E r \in Reqs : ParseCustomerId(r)

SpecResolve == InitResolve /\ [][NextResolve]_vars

\* ----------------------------------------------- the precondition specification
\* Only customer 1 has a row.  Migrate requests arrive under every identity:
\* customer 1, customer 2 (no row), guest g1, nobody, and whatever the
\* customer id header says, with and without a guest token.
PreHeaders == {Absent, Cust2, <<"a">>}

InitPre ==
  /\ shops = {ShopX}
  /\ customers = {CustomerRow(1, ShopX, 1)}
  /\ \E hasC \in BOOLEAN :
       /\ wishlists = {GuestWl} \cup (IF hasC THEN {CustWl} ELSE {})
       /\ items = {GuestItem} \cup (IF hasC THEN {CustItem} ELSE {})
  /\ InitRequests

PreMigrate ==
  \E r \in Reqs, b \in {TokC1, TokC2, TokG1, NoToken}, h \in PreHeaders,
     gt \in {Absent, <<GuestPrefix>> \o G1} :
    MigrateBegin(r, ShopX, b, h, gt)

NextPre == PreMigrate \/ MigrateSteps

SpecPre == InitPre /\ [][NextPre]_vars

\* ---------------------------------------------------- the tenant specification
\* Two shops and no wishlist yet.  A guest with key g1 fetches and adds in
\* each shop under that shop's guest token.
TokGY == generateGuestToken(ShopY, G1, 0)

TenantTokens == {<<ShopX, TokG1>>, <<ShopY, TokGY>>}

InitTenant ==
  /\ shops = AuthShops
  /\ customers = {}
  /\ wishlists = {}
  /\ items = {}
  /\ InitRequests

TenantFetch ==
  \E r \in Reqs, sb \in TenantTokens : FetchBegin(r, sb[1], sb[2], Absent)

TenantAdd ==
  \E r \in Reqs, sb \in TenantTokens :
    AddBegin(r, sb[1], sb[2], Absent, KeyA[1], KeyA[2], "shoe")

NextTenant ==
  \/ TenantFetch \/ TenantAdd
  \/ DoFetchGuestWishlist \/ DoFetchCreateGuestWishlist
  \/ DoAddGuestWishlist \/ DoAddCreateGuestWishlist
  \/ DoAddCheck \/ DoAddCreate \/ DoAddEvent

SpecTenant == InitTenant /\ [][NextTenant]_vars

\* ------------------------------------------------------- what a claim reads
\* the Customer rows a registered request acts for
CustomerIds(q) ==
  IF isGuest(q) \/ ~IsNumeric(parsedCustomerId(q)) THEN {}
  ELSE {c.id : c \in customersOf(q.shop, BigInt(parsedCustomerId(q)))}

\* among the wishlists W: the caller's own, and the guest's named by guestToken
TargetIds(W, q) ==
  {w.id : w \in {x \in W : x.shopId = q.shop /\ x.customerId # NullId
                           /\ x.customerId \in CustomerIds(q)}}

GuestIds(W, q) ==
  {w.id : w \in {x \in W : x.shopId = q.shop /\ x.customerId = NullId
                           /\ x.shareUUID = guestIdOf(q)}}

ItemsIn(I, wids) == {i \in I : i.wishlistId \in wids}

KeysIn(I, wids) == {Key(i) : i \in ItemsIn(I, wids)}

\* G and C of a migration: the guest's and the customer's keys on arrival
PreG(q) == KeysIn(q.preI, GuestIds(q.preW, q))

PreC(q) == KeysIn(q.preI, TargetIds(q.preW, q))

\* this step ends request r's handler, and no storage call was interrupted
Ends(r, op) ==
  /\ reqs[r].op = op /\ InFlight(reqs[r])
  /\ reqs'[r].pc = "done"
  /\ faults' = faults

CreatedBy(i, r) == i.id \div IdStride = r

\* ------------------------------------------------------------------- claims

\* C1: a migrate call that runs alone on any guest wishlist with key set G,
\* into a customer key set C, returns migratedCount = |G \ C|, leaves the
\* customer's wishlist with exactly the keys C \cup G, each once, and leaves
\* the guest wishlist and its items unresolvable.
C1_MigrateFolds ==
  [][\A r \in Reqs :
       (Ends(r, "migrate") /\ reqs[r].alone
        /\ GuestIds(reqs[r].preW, reqs[r]) # {})
       => LET q == reqs[r]
              T == TargetIds(wishlists', q)
          IN /\ reqs'[r].status = 200
             /\ reqs'[r].count = Cardinality(PreG(q) \ PreC(q))
             /\ KeysIn(items', T) = PreC(q) \cup PreG(q)
             /\ \A k \in PreC(q) \cup PreG(q) :
                  Cardinality({i \in ItemsIn(items', T) : Key(i) = k}) = 1
             /\ GuestIds(wishlists', q) = {}
             /\ ItemsIn(items', GuestIds(q.preW, q)) = {}]_vars

\* The fold of a guest wishlist that holds items: a migrate call that runs
\* alone on a non-empty key set G returns migratedCount = |G \ C|, leaves the
\* customer's wishlist with exactly the keys C \cup G, having added exactly
\* one item for each key of G \ C and kept the customer's earlier items, and
\* leaves the guest wishlist and its items unresolvable.
FoldOfNonEmptyGuestWishlist ==
  [][\A r \in Reqs :
       (Ends(r, "migrate") /\ reqs[r].alone /\ PreG(reqs[r]) # {})
       => LET q == reqs[r]
              T == TargetIds(wishlists', q)
              old == ItemsIn(q.preI, TargetIds(q.preW, q))
          IN /\ reqs'[r].status = 200
             /\ reqs'[r].count = Cardinality(PreG(q) \ PreC(q))
             /\ KeysIn(items', T) = PreC(q) \cup PreG(q)
             /\ old \subseteq ItemsIn(items', T)
             /\ \A k \in PreG(q) \ PreC(q) :
                  Cardinality({i \in ItemsIn(items', T) : Key(i) = k}) = 1
             /\ \A i \in ItemsIn(items', T) \ old :
                  Key(i) \in PreG(q) \ PreC(q)
             /\ GuestIds(wishlists', q) = {}
             /\ ItemsIn(items', GuestIds(q.preW, q)) = {}]_vars

\* a migration that ran alone folded {A, B} into {A}: it reports 1
FoldOfNonEmptyGuestWishlistReached ==
  \E r \in Reqs :
    /\ reqs[r].op = "migrate" /\ reqs[r].pc = "done" /\ reqs[r].alone
    /\ reqs[r].status = 200 /\ reqs[r].count = 1
    /\ PreG(reqs[r]) = Keys /\ PreC(reqs[r]) = {KeyA}
    /\ KeysIn(items, TargetIds(wishlists, reqs[r])) = Keys
    /\ GuestIds(wishlists, reqs[r]) = {}

\* C2: when migrate is called twice in sequence for one guest key by one
\* customer (the first call having folded the guest wishlist), the guest
\* wishlist is gone after the first call, the second call reports a migrated
\* count of 0, and it leaves the customer's wishlist as the first call left it.
C2_MigrateTwice ==
  [][\A r1, r2 \in Reqs :
       (/\ r2 = r1 + 1
        /\ reqs[r1].op = "migrate" /\ reqs[r1].pc = "done" /\ reqs[r1].alone
        /\ reqs[r1].status = 200 /\ reqs[r1].migrated = "true"
        /\ Ends(r2, "migrate") /\ reqs[r2].alone
        /\ reqs[r2].shop = reqs[r1].shop
        /\ reqs[r2].customerId = reqs[r1].customerId
        /\ reqs[r2].guestToken = reqs[r1].guestToken)
       => LET q == reqs[r2] IN
          /\ GuestIds(q.preW, q) = {}
          /\ reqs'[r2].status = 200
          /\ reqs'[r2].count = 0
          /\ ItemsIn(items', TargetIds(wishlists', q))
               = ItemsIn(q.preI, TargetIds(q.preW, q))]_vars

\* C3: in every reachable state no wishlist holds two items with the same
\* (productId, variantId).
C3_UniqueKeys ==
  \A i, j \in items :
    (i.wishlistId = j.wishlistId /\ Key(i) = Key(j)) => i = j

Reported(q) == IF q.count = NoCount THEN 0 ELSE q.count

\* C4: when two migrate requests for one guest key and one customer overlap
\* (and no storage call is interrupted), each guest item is created in the
\* target at most once, the two reported counts add up to the number of guest
\* keys the target lacked beforehand, and neither request answers 500.
C4_FoldedOnce ==
  \A r1, r2 \in Reqs :
    (/\ r1 < r2 /\ faults = 0
     /\ reqs[r1].op = "migrate" /\ reqs[r1].pc = "done"
     /\ reqs[r2].op = "migrate" /\ reqs[r2].pc = "done"
     /\ ~reqs[r2].alone
     /\ reqs[r2].shop = reqs[r1].shop
     /\ reqs[r2].customerId = reqs[r1].customerId
     /\ reqs[r2].guestToken = reqs[r1].guestToken)
    => LET q == reqs[r1]
           T == TargetIds(wishlists, q)
       IN /\ reqs[r1].status # 500 /\ reqs[r2].status # 500
          /\ \A k \in PreG(q) :
               Cardinality({i \in ItemsIn(items, T) :
                  Key(i) = k /\ (CreatedBy(i, r1) \/ CreatedBy(i, r2))}) <= 1
          /\ Reported(reqs[r1]) + Reported(reqs[r2])
               = Cardinality(PreG(q) \ PreC(q))

\* C5: a migrate request that failed after it had created items in the target
\* does not leave the guest wishlist it read in the store.
C5_AllOrNothing ==
  \A r \in Reqs :
    (reqs[r].op = "migrate" /\ reqs[r].pc = "done" /\ reqs[r].status = 500
     /\ reqs[r].migratedCount > 0)
    => ~(\E w \in wishlists : w.id = reqs[r].guest)

\* C7: in every reachable state a shop holds at most one wishlist for each
\* non-null customer; guest wishlists are exempt.
C7_OneWishlistPerCustomer ==
  \A w1, w2 \in wishlists :
    (w1.shopId = w2.shopId /\ w1.customerId # NullId
     /\ w1.customerId = w2.customerId) => w1 = w2

\* two fetches of customer 1 raced to create the wishlist: one holds it, the
\* other was refused by the index, and two guest wishlists share the shop
C7_Witness ==
  /\ \E r1, r2 \in Reqs :
       /\ reqs[r1].op = "fetch" /\ reqs[r1].pc = "done"
       /\ reqs[r1].status = 200 /\ reqs[r1].made = 1
       /\ reqs[r1].customerId = Cust1
       /\ reqs[r2].op = "fetch" /\ reqs[r2].pc = "done"
       /\ reqs[r2].status = 500 /\ reqs[r2].customerId = Cust1
  /\ Cardinality(customerWishlists(ShopX, 1)) = 1
  /\ Cardinality({w \in wishlists :
                    w.shopId = ShopX /\ w.customerId = NullId}) = 2

\* C6: in every reachable state there is at most one Customer row for a (shop,
\* external id); after a completed createCustomerSession call there is exactly
\* one for its (shop, external id), and it carries the email of the latest
\* call (a call that ran alone and was followed by no other for that customer).
C6_OneCustomerRow ==
  /\ \A c1, c2 \in customers :
       (c1.shopId = c2.shopId /\ c1.shopCustomerId = c2.shopCustomerId)
       => c1 = c2
  /\ \A r \in Reqs :
       (reqs[r].op = "session" /\ reqs[r].pc = "done" /\ reqs[r].status = 200)
       => LET q == reqs[r]
              rows == customersOf(q.shop, BigInt(q.customerId))
          IN /\ Cardinality(rows) = 1
             /\ (q.alone /\ \A x \in Reqs :
                   (x > r /\ reqs[x].op = "session")
                   => ~(reqs[x].shop = q.shop
                        /\ reqs[x].customerId = q.customerId))
                => \A c \in rows : c.email = q.email

\* C8: a validly signed token issued for one shop, presented against another
\* shop, makes validateSession return null, and a handler request that
\* carries it takes no identity from it: the request's customerId is the one
\* it would have had without the token.
C8_CrossTenantIsolation ==
  \A r \in Reqs :
    LET q == reqs[r] IN
    (q.pc # "idle" /\ q.bearer.kind = "jwt" /\ q.bearer.sig = "ok"
     /\ q.bearer.shop # q.shop)
    => /\ q.op = "validate" => q.token = NoToken
       /\ q.op \in {"add", "delete", "migrate"}
            => /\ ~q.tokenOk
               /\ q.customerId = authenticateCustomer(q.shop, NoToken, q.hdr, 0)

\* the unexpired token of customer 2 of shop Y was presented to
\* validateSession against shop X, which returned null
C8_Witness ==
  \E r \in Reqs :
    /\ reqs[r].op = "validate" /\ reqs[r].pc = "done"
    /\ reqs[r].bearer = TokY1 /\ reqs[r].shop = ShopX
    /\ now < TokY1.exp
    /\ reqs[r].token = NoToken

\* C9: an add, remove or migrate request whose bearer token is absent,
\* malformed, forged, expired or of another shop is answered 401 or 403
\* before any handler step, creates and deletes no row, and is served under no
\* customer identity.
C9_RejectedAtBoundary ==
  \A r \in Reqs :
    LET q == reqs[r] IN
    (q.op \in {"add", "delete", "migrate"} /\ ~q.tokenOk)
    => /\ q.pc = "done" /\ q.status \in {401, 403}
       /\ q.made = 0
       /\ q.op = "delete" => \E i \in items : i.id = q.itemId
       /\ CustomerIds(q) = {}

\* C10: a delete request that runs alone on an item of a wishlist owned by a
\* customer answers 403 and leaves the item when the caller is a guest or
\* another customer, and answers 200 with the item gone when the caller is
\* the owner.
C10_OwnershipOnDelete ==
  [][\A r \in Reqs :
       (Ends(r, "delete") /\ reqs[r].alone)
       => LET q == reqs[r] IN
          \A i \in q.preI : \A w \in q.preW :
            (i.id = q.itemId /\ w.id = i.wishlistId /\ w.customerId # NullId)
            => IF w.customerId \in CustomerIds(q)
               THEN reqs'[r].status = 200 /\ i \notin items'
               ELSE reqs'[r].status = 403 /\ i \in items']_vars

\* the wishlist w belongs to the shop and to the identity request q acts under
OwnedBy(q, w) ==
  /\ w.shopId = q.shop
  /\ IF isGuest(q)
     THEN w.customerId = NullId /\ w.shareUUID = parsedCustomerId(q)
     ELSE w.customerId \in CustomerIds(q)

\* C11: a delete request removes an item only when the item's wishlist
\* belongs to the caller's shop and is owned by the caller's own identity (for
\* a guest: the guest wishlist whose shareUUID is the caller's key); a delete
\* request on an item of any other wishlist ends with 403.
C11_DeleteOnlyOwn ==
  [][\A r \in Reqs :
       (reqs[r].op = "delete" /\ InFlight(reqs[r]) /\ reqs'[r] # reqs[r])
       => LET q == reqs[r] IN
          \A i \in items : \A w \in wishlists :
            (i.id = q.itemId /\ w.id = i.wishlistId /\ ~OwnedBy(q, w))
            => /\ i \in items'
               /\ reqs'[r].pc = "done" => reqs'[r].status = 403]_vars

\* the operations whose result is a token the system issued
IssuingOps ==
  {"session", "guest", "refresh", "fetch", "add", "delete", "migrate"}

\* C12: every token issued at session creation, at refresh or as a handler's
\* fresh token lives 3600 seconds when its subject is a registered customer
\* and 86400 seconds when its subject is a guest.
C12_LifetimeBySubject ==
  \A r \in Reqs :
    LET q == reqs[r] IN
    (q.pc = "done" /\ q.op \in IssuingOps /\ q.token # NoToken)
    => q.token.exp - q.token.iat =
         IF parseCustomerId(q.token.customerId).isGuest
         THEN GuestTtl ELSE CustomerTtl

\* C13: verifying a token signed from (shop, subject, lifetime) returns the
\* original shop, subject, kind, issuedAt and expiresAt when the clock is
\* before expiresAt and fails when it is after; a token whose signature is
\* not made with the secret never verifies; validateSession fails after
\* expiresAt as well.
C13_RoundTrip ==
  [][\A r \in Reqs :
       (reqs[r].pc = "idle" /\ reqs'[r].op \in {"verify", "validate"})
       => LET b == reqs'[r].bearer
              res == reqs'[r].token
          IN /\ \A s \in AuthShops, c \in TokenSubjects, l \in TokenLifetimes :
                  (b = generateStorefrontToken(s, c, l, 0)
                   /\ reqs'[r].op = "verify")
                  => /\ now < l
                          => res = [shop |-> s, customerId |-> c,
                                    type |-> "storefront", iat |-> 0,
                                    exp |-> l]
                     /\ now > l => res = NoToken
             /\ (b.kind = "jwt" /\ now > b.exp) => res = NoToken
             /\ b.sig # "ok" => res = NoToken]_vars

\* the guest token signed at 0 for shop X verified before its expiry to the
\* claims it was signed from
C13_Witness ==
  \E r \in Reqs :
    /\ reqs[r].op = "verify" /\ reqs[r].pc = "done"
    /\ reqs[r].bearer = TokG1
    /\ reqs[r].token = [shop |-> ShopX, customerId |-> <<GuestPrefix>> \o G1,
                        type |-> "storefront", iat |-> 0, exp |-> GuestTtl]

\* C14: refreshSession(token, shop) returns (it never throws); it returns
\* null when the token is malformed, forged, expired or of another shop, and
\* otherwise a new token that validates against the same shop and carries
\* exactly the subject of the input token, guest prefix included.
C14_RefreshSession ==
  [][\A r \in Reqs :
       (reqs[r].pc = "idle" /\ reqs'[r].op = "refresh")
       => LET b == reqs'[r].bearer
              s == reqs'[r].shop
              res == reqs'[r].token
          IN /\ reqs'[r].pc = "done" /\ reqs'[r].status = 200
             /\ IF b.kind = "jwt" /\ b.sig = "ok" /\ now < b.exp
                   /\ b.shop = s
                THEN /\ res # NoToken
                     /\ res.customerId = b.customerId
                     /\ validateSession(res, s, now) # NoToken
                     /\ validateSession(res, s, now).customerId = b.customerId
                ELSE res = NoToken]_vars

\* the guest token of g1 was refreshed against its shop: the new token's
\* subject is still 'guest_g1'
C14_Witness ==
  \E r \in Reqs :
    /\ reqs[r].op = "refresh" /\ reqs[r].pc = "done"
    /\ reqs[r].bearer = TokG1 /\ reqs[r].shop = ShopX
    /\ reqs[r].token # NoToken
    /\ reqs[r].token.customerId = <<GuestPrefix>> \o G1

\* C15: every successful response (200 or 201) of fetch, add, remove and
\* migrate, the migrate no-op included, carries a token issued for the
\* caller's shop and subject no later than the response.
C15_SuccessCarriesToken ==
  \A r \in Reqs :
    LET q == reqs[r] IN
    (q.pc = "done" /\ q.op \in {"fetch", "add", "delete", "migrate"}
     /\ q.status \in {200, 201})
    => /\ q.token # NoToken
       /\ q.token.shop = q.shop
       /\ q.token.customerId = q.customerId
       /\ q.token.iat <= now

\* C16: when an add that ran alone stored an item and the next request, also
\* alone, adds the same (productId, variantId) to the same wishlist, the
\* first add is no conflict, the second answers 409 with the stored item, and
\* the wishlist then holds exactly one item with that key.
C16_SecondAddConflicts ==
  [][\A r1, r2 \in Reqs :
       (/\ r2 = r1 + 1
        /\ reqs[r1].op = "add" /\ reqs[r1].pc = "done" /\ reqs[r1].alone
        /\ Ends(r2, "add") /\ reqs[r2].alone
        /\ reqs[r2].productId = reqs[r1].productId
        /\ reqs[r2].variantId = reqs[r1].variantId)
       => \A i \in items :
            (CreatedBy(i, r1) /\ i.wishlistId = reqs[r2].wishlist
             /\ i.productId = reqs[r1].productId
             /\ i.variantId = reqs[r1].variantId)
            => /\ reqs[r1].status # 409
               /\ reqs'[r2].status = 409
               /\ reqs'[r2].item = i.id
               /\ itemsWithKey(i.wishlistId, i.productId, i.variantId)
                    = {i}
               /\ items' = items]_vars

\* guest g1 added product A twice in sequence: 201, then 409 with the item
\* the first add stored, which is the only item of that key
C16_Witness ==
  \E r1, r2 \in Reqs : \E i \in items :
    /\ r2 = r1 + 1
    /\ reqs[r1].op = "add" /\ reqs[r1].pc = "done" /\ reqs[r1].alone
    /\ reqs[r1].status = 201 /\ reqs[r1].item = i.id /\ CreatedBy(i, r1)
    /\ reqs[r2].op = "add" /\ reqs[r2].pc = "done" /\ reqs[r2].alone
    /\ reqs[r2].status = 409 /\ reqs[r2].item = i.id
    /\ reqs[r1].customerId = <<GuestPrefix>> \o G1
    /\ reqs[r2].customerId = reqs[r1].customerId
    /\ itemsWithKey(i.wishlistId, KeyA[1], KeyA[2]) = {i}

\* C17: with the secret configured, a request that carries the base64
\* HMAC-SHA256 of a body under the shared secret is passed on to the handlers
\* when its raw body is that body (and it names a shop), and is answered 401,
\* without being passed on, when its raw body is another one.
C17_SignatureOverRawBody ==
  \A r \in Reqs :
    LET q == reqs[r] IN
    (q.op = "proxy" /\ q.pc = "done" /\ q.secret = SharedSecret)
    => \A b \in Bodies :
         q.hmac = digestBase64(b, SharedSecret)
         => IF q.raw = b
            THEN q.shop # "" => q.next
            ELSE q.status = 401 /\ ~q.next

\* C18: with the secret configured, a request whose signature header is
\* absent, decodes to another length than a digest, or does not match the
\* raw body's signature is answered 401 and raises no exception; 500 is
\* answered only when the secret is not configured.
C18_SignatureFailures ==
  \A r \in Reqs :
    LET q == reqs[r] IN
    (q.op = "proxy" /\ q.pc = "done")
    => /\ (q.secret = SharedSecret
           /\ (\/ q.hmac = NoHmac
               \/ q.hmac.len # DigestLen
               \/ q.hmac.bytes # hmacSha256(q.raw, SharedSecret)))
          => q.status = 401 /\ ~q.threw
       /\ q.status = 500 => q.secret = ""

Resolved(q) == q.op = "parse" /\ q.pc = "done"

\* C19 (as amended): the resolver answers every identifier: an absent or
\* empty one gives {isGuest: true, key: null}; 'guest_' followed by s gives
\* {isGuest: true, key: s}; every other non-empty string v gives
\* {isGuest: false, key: v}; and the store is as it was.
C19_Classifies ==
  \A r \in Reqs :
    LET v == reqs[r].customerId
        p == reqs[r].parsed
    IN
    Resolved(reqs[r])
    => /\ v = <<>> => p = [isGuest |-> TRUE, customerId |-> Absent]
       /\ \A s \in Identifiers :
            v = <<GuestPrefix>> \o s => p = [isGuest |-> TRUE, customerId |-> s]
       /\ (v # <<>> /\ v[1] # GuestPrefix)
          => p = [isGuest |-> FALSE, customerId |-> v]
       /\ customers = {} /\ wishlists = {} /\ items = {} /\ events = {}

C19_Witness ==
  \E r \in Reqs :
    /\ Resolved(reqs[r])
    /\ reqs[r].customerId = <<GuestPrefix, "a">>
    /\ reqs[r].parsed = [isGuest |-> TRUE, customerId |-> <<"a">>]

\* C19 (as stated): every string that does not start with 'guest_', the
\* empty string among them, is classified as registered under itself.
C19_EveryOtherString ==
  \A r \in Reqs :
    (Resolved(reqs[r])
     /\ (reqs[r].customerId = <<>> \/ reqs[r].customerId[1] # GuestPrefix))
    => reqs[r].parsed = [isGuest |-> FALSE, customerId |-> reqs[r].customerId]

\* C20: a migrate call that runs alone for a known customer while the guest
\* wishlist named by its guest key is absent or holds no items answers 200
\* with a migrated count of 0 and leaves every wishlist, item and event as
\* they were when it arrived.
C20_NoOpChangesNothing ==
  [][\A r \in Reqs :
       LET q == reqs[r] IN
       (/\ Ends(r, "migrate") /\ q.alone /\ q.pc = "gwl"
        /\ ItemsIn(q.preI, GuestIds(q.preW, q)) = {})
       => /\ reqs'[r].status = 200
          /\ reqs'[r].count = 0
          /\ wishlists' = q.preW
          /\ items' = q.preI
          /\ events' = events]_vars

\* the step in which request r, a call of op, is answered
Answers(r, op) ==
  reqs[r].pc # "done" /\ reqs'[r].pc = "done" /\ reqs'[r].op = op

\* C21: a migrate request under a guest identity (a guest key or none) is
\* answered 400, one that names a guest token under a registered identity
\* with no customer row in the shop is answered 404, and either creates no
\* row and leaves the wishlists, the items and the events as they are.
C21_MigratePreconditions ==
  [][\A r \in Reqs :
       LET q == reqs'[r] IN
       (/\ Answers(r, "migrate")
        /\ \/ isGuest(q)
           \/ q.guestToken # Absent /\ CustomerIds(q) = {})
       => /\ q.status = IF isGuest(q) THEN 400 ELSE 404
          /\ q.made = 0
          /\ wishlists' = wishlists /\ items' = items
          /\ events' = events]_vars

\* C22: the step in which an add, remove or migrate request stores or removes
\* an item or a wishlist does not answer it with an internal error: once the
\* primary operation is committed, what is left is the activity event, and
\* that never turns the answer into 500.
C22_LoggingNeverBlocks ==
  [][\A r \in Reqs :
       (/\ \/ Answers(r, "add") \/ Answers(r, "delete")
           \/ Answers(r, "migrate")
        /\ items' # items \/ wishlists' # wishlists)
       => reqs'[r].status # 500]_vars

\* C23: when a migrate request deletes the guest wishlist, every item that
\* is in it at that moment has an item with the same (productId, variantId)
\* in the customer's wishlist, whatever the guest added in the meantime.
C23_NoGuestItemLost ==
  [][\A r \in Reqs :
       LET q == reqs[r] IN
       (/\ q.op = "migrate" /\ q.pc = "delete" /\ reqs'[r].pc # "delete"
        /\ wishlists' # wishlists)
       => \A i \in ItemsIn(items, {q.guest}) :
            Key(i) \in KeysIn(items, TargetIds(wishlists, q))]_vars

\* C24: an add request that runs alone, under a guest key or under a
\* registered identity with a customer row, for a (productId, variantId) its
\* wishlist does not hold yet, is answered 201 with the new item and a token,
\* and the item is then in the caller's wishlist.
C24_AddSucceeds ==
  [][\A r \in Reqs :
       LET q == reqs[r] IN
       (/\ Ends(r, "add") /\ q.alone
        /\ IF isGuest(q) THEN parsedCustomerId(q) # Absent
           ELSE CustomerIds(q) # {}
        /\ \A w \in q.preW : \A i \in q.preI :
             (OwnedBy(q, w) /\ i.wishlistId = w.id)
             => Key(i) # <<q.productId, q.variantId>>)
       => /\ reqs'[r].status = 201
          /\ reqs'[r].token # NoToken
          /\ \E i \in items' : \E w \in wishlists' :
               /\ i.id = reqs'[r].item /\ CreatedBy(i, r)
               /\ Key(i) = <<q.productId, q.variantId>>
               /\ i.wishlistId = w.id /\ OwnedBy(q, w)]_vars

\* C25: a fetch that runs alone under a guest key or a registered identity
\* with a customer row is answered 200; when the identity has a wishlist it
\* returns that wishlist's id with exactly the items now in it and creates no
\* wishlist, and when it has none it creates one and returns it.
C25_FetchStable ==
  [][\A r \in Reqs :
       LET q == reqs[r]
           own == {w \in q.preW : OwnedBy(q, w)}
       IN
       (/\ Ends(r, "fetch") /\ q.alone
        /\ IF isGuest(q) THEN parsedCustomerId(q) # Absent
           ELSE CustomerIds(q) # {})
       => /\ reqs'[r].status = 200
          /\ IF own # {}
             THEN /\ reqs'[r].wl \in {w.id : w \in own}
                  /\ reqs'[r].wlItems
                       = {i.id : i \in ItemsIn(items', {reqs'[r].wl})}
                  /\ wishlists' = q.preW
             ELSE \E w \in wishlists' \ q.preW :
                    /\ OwnedBy(q, w) /\ reqs'[r].wl = w.id
                    /\ wishlists' = q.preW \cup {w}]_vars

\* C26: for the guest key k of every guest session handed out (the token's
\* subject is 'guest_' followed by k), the guest's fetch and add requests
\* look up and create the wishlist with shareUUID k, and migrate looks up
\* shareUUID k when its guestToken is 'guest_' followed by k and when it is k.
C26_SameGuestWishlist ==
  \A r \in Reqs :
    LET q == reqs[r] IN
    (q.op = "guest" /\ q.pc = "done" /\ q.status = 200)
    => LET subject == q.token.customerId
           k == sessionGuestId(q.guestToken, q.token.iat)
           asGuest == [customerId |-> subject]
       IN /\ subject = <<GuestPrefix>> \o k
          /\ isGuest(asGuest)
          /\ guestLookupUUID(asGuest) = k
          /\ guestCreateUUID(asGuest, now) = k
          /\ guestIdOf([guestToken |-> subject]) = k
          /\ guestIdOf([guestToken |-> k]) = k

\* C27: a fetch or add that guest k makes alone in a shop that holds no
\* wishlist of k ends as it does when no other shop holds one either: fetch
\* with 200 and add with 201, having created k's wishlist in the caller's
\* shop, and with the other shops' wishlists and items untouched.
C27_TenantsDoNotInterfere ==
  [][\A r \in Reqs :
       LET q == reqs[r] IN
       (/\ Ends(r, "fetch") \/ Ends(r, "add")
        /\ q.alone /\ isGuest(q) /\ parsedCustomerId(q) # Absent
        /\ \A w \in q.preW : ~OwnedBy(q, w))
       => /\ reqs'[r].status = IF q.op = "fetch" THEN 200 ELSE 201
          /\ \E w \in wishlists' \ q.preW :
               OwnedBy(q, w) /\ wishlists' = q.preW \cup {w}
          /\ \A i \in items' \ q.preI :
               \E w \in wishlists' : i.wishlistId = w.id /\ OwnedBy(q, w)
          /\ q.preI \subseteq items']_vars

====
